---- MODULE Spec2Model ----
(***************************************************************************)
(* Model of the IMDb scraper API: one Scraper object (browser and page     *)
(* handles) shared by the two scraping endpoints of ScraperController.     *)
(* Every action is one synchronous run of JavaScript between two awaits:   *)
(* it starts when the awaited promise settles and ends where the next      *)
(* promise is awaited.                                                     *)
(***************************************************************************)
EXTENDS Integers, Sequences, FiniteSets, TLC

\* ---------------------------------------------------------------- bounds
\* Number of HTTP requests served in one run.
NReq == 2
\* Number of failures the environment (puppeteer, the network, the page) may
\* inject in one run: a launch, newPage, goto, selector wait, evaluate or
\* browser.close() that throws.  MaxFaults when requests arrive one at a
\* time, ConcFaults when they may overlap.
MaxFaults == 4
ConcFaults == 0
\* Failures injected into the single request of SpecOne: enough to fail
\* every attempt of startWithRetry.
OneFaults == 3
\* Number of list elements on the trending page.
MaxItems == 2
\* Number of entries in a poster's srcset.
MaxEntries == 3
\* Number of <video> elements in a title page.
MaxVideos == 2
\* Largest maxRetries that scrapeWithRetry is called with.
MaxFetchRetries == 5

\* ----------------------------------------------------- program constants
\* startWithRetry(link, maxRetries = 3)
maxRetries == 3
\* setTimeout(resolve, 2000 * attempt)
retryDelayMs == 2000
\* setTimeout(resolve, 3000)
settleDelayMs == 3000
\* Math.pow(2, attempt) * 1000
fetchDelayMs == 1000

Requests == 1..NReq

\* The launch strategies of startWithRetry, in array order.
strategies == <<"configured", "minimal", "systemChrome">>

\* The eight section extractors, in the order of the Promise.all array.
Sections ==
  <<"basicInfo", "storyline", "ratings", "cast", "videos", "images",
    "videoSources", "poster">>

SectionSet == {Sections[i] : i \in 1..Len(Sections)}

\* ---------------------------------------------------------------- strings
\* A string is a sequence of one-character strings.
S_tt == <<"t", "t">>
S_titlePrefix == <<"/", "t", "i", "t", "l", "e", "/">>
Digits == {"0", "1", "2", "3", "4", "5", "6", "7", "8", "9"}
Whitespace == {" "}

\* String.prototype.startsWith
StartsWith(s, p) == Len(s) >= Len(p) /\ SubSeq(s, 1, Len(p)) = p

\* String.prototype.trim
Trim(s) ==
  LET keep == {i \in 1..Len(s) : s[i] \notin Whitespace}
  IN  IF keep = {} THEN <<>>
      ELSE LET lo == CHOOSE i \in keep : \A j \in keep : i <= j
               hi == CHOOSE i \in keep : \A j \in keep : j <= i
           IN  SubSeq(s, lo, hi)

\* A JavaScript string is falsy exactly when it is empty.
Truthy(s) == s # <<>>

\* movieUrl.match(/\/title\/(tt\d+)/): the capture group of the leftmost
\* match, with \d+ greedy; "" when there is no match.
ImdbIdMatch(url) ==
  LET pre  == S_titlePrefix \o S_tt
      n    == Len(pre)
      hits == {i \in 1..Len(url) :
                 /\ i + n <= Len(url)
                 /\ SubSeq(url, i, i + n - 1) = pre
                 /\ url[i + n] \in Digits}
  IN  IF hits = {} THEN <<>>
      ELSE LET i   == CHOOSE h \in hits : \A g \in hits : h <= g
               d0  == i + n
               run == {k \in d0..Len(url) : \A j \in d0..k : url[j] \in Digits}
               d1  == CHOOSE k \in run : \A j \in run : j <= k
           IN  SubSeq(url, i + Len(S_titlePrefix), d1)

\* ------------------------------------------------------------------ state
VARIABLES
  browser,      \* Scraper.browser: a browser, or Null
  page,         \* Scraper.page: the browser the page belongs to, or Null
  live,         \* browser processes launched and not torn down
  faults,       \* failures the environment may still inject
  kind,         \* per request: "none", "movie" or "trending"
  body,         \* per request: the JSON body of the request
  pc,           \* per request: the await its handler is suspended at
  attempt,      \* per request: startWithRetry's loop variable
  strat,        \* per request: index of the launch strategy being awaited
  target,       \* per request: the object the awaited call was made on
  ctx,          \* per request: where control returns when close() returns
  timer,        \* per request: milliseconds of the setTimeout awaited, else 0
  lastError,    \* per request: startWithRetry's lastError
  lastClose,    \* per request: how its latest close() ended, "none" after a launch
  startResult,  \* per request: "none", "ok" or "failed" for startWithRetry
  ext,          \* per request: the eight extractor tasks of Promise.all
  movieList,    \* per request: scrapeTrending's movieList
  returned,     \* per request: the value scrapeTrending returned
  status,       \* per request: HTTP status of the response, 0 before it
  message,      \* per request: the message (or error) field of the response
  movieData,    \* per request: the record scrapeCompleteMovieData returned
  data,         \* per request: the data field of the trending response
  count,        \* per request: the count field of the trending response
  fetch,        \* one call of ScraperAPIService.scrapeWithRetry
  dom,          \* the part of the document a page.evaluate callback reads
  evaluated     \* what that callback returned

vars ==
  <<browser, page, live, faults, kind, body, pc, attempt, strat, target,
    ctx, timer, lastError, lastClose, startResult, ext, movieList, returned,
    status, message, movieData, data, count, fetch, dom, evaluated>>

\* A browser is named by the request and the attempt that launched it.
Null == [req |-> 0, att |-> 0]
BrowserOf(r, a) == [req |-> r, att |-> a]

\* A call in flight: the object it was made on, and whether that object's
\* browser had already been torn down when the call was made.
NoCall == [on |-> Null, stale |-> FALSE]

\* An Error object: its message, and the attempt of startWithRetry it was
\* raised in (0 outside of an attempt).
NoError == [message |-> <<>>, attempt |-> 0]
ErrorIn(s, r, msg) == [message |-> msg, attempt |-> s.attempt[r]]

E_allStrategies == <<"All browser launch strategies failed">>
E_newPage == <<"newPage: protocol error">>
E_pageCall == <<"page call: protocol error">>
E_navigation == <<"Navigation timeout exceeded">>
E_teardown == <<"Protocol error (Browser.close): Target closed">>
E_typeError == <<"Cannot read properties of null">>
E_pageNotInitialized == <<"Page not initialized">>
E_imdbidRequired == <<"imdbid is required">>
E_noTrending == <<"No trending movies found on IMDb">>
E_noValidTrending == <<"No valid trending movies data found">>

\* The state as one record, so that the synchronous code between two awaits
\* is a composition of functions on it.
State ==
  [browser |-> browser, page |-> page, live |-> live, faults |-> faults, kind |-> kind, body |-> body, pc |-> pc,
   attempt |-> attempt, strat |-> strat, target |-> target, ctx |-> ctx,
   timer |-> timer,
   lastError |-> lastError, lastClose |-> lastClose,
   startResult |-> startResult, ext |-> ext, movieList |-> movieList,
   returned |-> returned, status |-> status, message |-> message,
   movieData |-> movieData, data |-> data, count |-> count,
   fetch |-> fetch, dom |-> dom,
   evaluated |-> evaluated]

Commit(s) ==
  /\ browser' = s.browser
  /\ page' = s.page
  /\ live' = s.live
  /\ faults' = s.faults
  /\ kind' = s.kind
  /\ body' = s.body
  /\ pc' = s.pc
  /\ attempt' = s.attempt
  /\ strat' = s.strat
  /\ target' = s.target
  /\ ctx' = s.ctx
  /\ timer' = s.timer
  /\ lastError' = s.lastError
  /\ lastClose' = s.lastClose
  /\ startResult' = s.startResult
  /\ ext' = s.ext
  /\ movieList' = s.movieList
  /\ returned' = s.returned
  /\ status' = s.status
  /\ message' = s.message
  /\ movieData' = s.movieData
  /\ data' = s.data
  /\ count' = s.count
  /\ fetch' = s.fetch
  /\ dom' = s.dom
  /\ evaluated' = s.evaluated

IdleTask == [st |-> "idle", k |-> 0, call |-> NoCall, val |-> "none"]

\* No callback has been evaluated.
NotEvaluated == [st |-> "pending", url |-> <<>>, list |-> <<>>]

\* scrapeWithRetry before it is called: its parameter maxRetries, its
\* locals attempt and lastError, the number of scrapeUrl calls made, the
\* delays waited so far, and what it returned or threw.
NoFetchError == [message |-> "undefined", attempt |-> 0]
IdleFetch ==
  [pc |-> "idle", maxRetries |-> 0, attempt |-> 0, calls |-> 0,
   waits |-> <<>>, lastError |-> NoFetchError,
   html |-> [body |-> "none", attempt |-> 0], thrown |-> NoFetchError]

Init ==
  /\ browser = Null
  /\ page = Null
  /\ live = {}
  /\ faults = ConcFaults
  /\ kind = [r \in Requests |-> "none"]
  /\ body = [r \in Requests |-> [present |-> FALSE, imdbid |-> <<>>]]
  /\ pc = [r \in Requests |-> "idle"]
  /\ attempt = [r \in Requests |-> 0]
  /\ strat = [r \in Requests |-> 0]
  /\ target = [r \in Requests |-> NoCall]
  /\ ctx = [r \in Requests |-> "none"]
  /\ timer = [r \in Requests |-> 0]
  /\ lastError = [r \in Requests |-> NoError]
  /\ lastClose = [r \in Requests |-> "none"]
  /\ startResult = [r \in Requests |-> "none"]
  /\ ext = [r \in Requests |-> [x \in SectionSet |-> IdleTask]]
  /\ movieList = [r \in Requests |-> <<>>]
  /\ returned = [r \in Requests |-> <<>>]
  /\ status = [r \in Requests |-> 0]
  /\ message = [r \in Requests |-> <<>>]
  /\ movieData = [r \in Requests |-> <<>>]
  /\ data = [r \in Requests |-> <<>>]
  /\ count = [r \in Requests |-> 0]
  /\ fetch = IdleFetch
  /\ dom = <<>>
  /\ evaluated = NotEvaluated

\* ------------------------------------------------------------ environment
\* browser.close() has been called on b and has not settled yet.
Closing(s, b) ==
  \E q \in Requests : s.pc[q] = "closing" /\ s.target[q].on = b

\* What a call on a browser or on one of its pages can do when it settles:
\* it fails for certain once the browser is gone, may fail while the
\* browser is being torn down, and otherwise succeeds or fails while the
\* run has failures left to inject.
CallOutcomes(s, call) ==
  IF call.on \in s.live
  THEN {"ok"} \cup (IF s.faults > 0 THEN {"fault"} ELSE {})
              \cup (IF Closing(s, call.on) THEN {"gone"} ELSE {})
  ELSE {"gone"}

\* puppeteer.launch: succeeds, or fails.
LaunchOutcomes(s) ==
  {"ok"} \cup (IF s.faults > 0 THEN {"fault"} ELSE {})

\* browser.close(): tears the process down, or throws with the process
\* still running, or throws with the process gone.  On a process that is
\* already gone it resolves or throws.
TeardownOutcomes(s, call) ==
  IF call.on \in s.live
  THEN {"ok"} \cup
       (IF s.faults > 0 THEN {"threwLive", "threwDead"} ELSE {})
  ELSE {"ok", "threwDead"}

\* An injected failure is counted; a failure that follows from the browser
\* being gone is not.
Charge(s, call, o) ==
  IF o = "fault" \/ (o \in {"threwLive", "threwDead"} /\ call.on \in s.live)
  THEN [s EXCEPT !.faults = @ - 1]
  ELSE s

\* A call made on obj now: stale when close() has already been called on
\* obj's browser.
CallOn(s, obj) ==
  [on |-> obj, stale |-> obj \notin s.live \/ Closing(s, obj)]

\* ------------------------------------------------------------- controller
Respond(s, r, code, msg) ==
  [s EXCEPT !.pc[r] = "done", !.status[r] = code, !.message[r] = msg,
            !.target[r] = NoCall, !.strat[r] = 0]

\* scrapeMovie, catch: 500 with the error's message.
MovieCatch(s, r, msg) == Respond(s, r, 500, msg)

\* scrapeMovie, after scrapeCompleteMovieData returned: res.json (200).
MovieRespond(s, r) == Respond(s, r, 200, <<>>)

\* scrapeTrendingMovies: the controller's own filter.
ControllerValid(movie) == Truthy(movie.title) /\ Trim(movie.title) # <<>>

\* scrapeTrendingMovies without its check for an empty list.
TrendingRespond_withoutEmptyCheck(s, r, list) ==
  LET s1 == [s EXCEPT !.returned[r] = list]
      validMovies == SelectSeq(list, ControllerValid)
  IN  IF Len(validMovies) = 0 THEN Respond(s1, r, 500, E_noValidTrending)
      ELSE [Respond(s1, r, 200, <<>>) EXCEPT !.data[r] = validMovies,
                                             !.count[r] = Len(validMovies)]

\* A response that carries the first valid movie only.
TrendingRespond_firstOnly(s, r, list) ==
  LET s1 == [s EXCEPT !.returned[r] = list]
      validMovies == SelectSeq(list, ControllerValid)
  IN  IF Len(list) = 0 THEN Respond(s1, r, 500, E_noTrending)
      ELSE IF Len(validMovies) = 0 THEN Respond(s1, r, 500, E_noValidTrending)
      ELSE [Respond(s1, r, 200, <<>>) EXCEPT
              !.data[r] = SubSeq(validMovies, 1, 1),
              !.count[r] = Len(validMovies)]

\* scrapeTrendingMovies, after scrapeTrending returned movieList.
TrendingRespond(s, r, list) ==
  LET s1 == [s EXCEPT !.returned[r] = list]
      validMovies == SelectSeq(list, ControllerValid)
  IN  IF Len(list) = 0 THEN Respond(s1, r, 500, E_noTrending)
      ELSE IF Len(validMovies) = 0 THEN Respond(s1, r, 500, E_noValidTrending)
      ELSE [Respond(s1, r, 200, <<>>) EXCEPT !.data[r] = validMovies,
                                             !.count[r] = Len(validMovies)]

\* ---------------------------------------------------------------- Scraper
\* A filter that looks at the identifier only.
ValidMovie_ignoresTitle(movie) ==
  Truthy(movie.imdbId) /\ StartsWith(movie.imdbId, S_tt)

\* scrapeTrending's filter on the extracted list.
ValidMovie(movie) ==
  /\ Truthy(movie.title)
  /\ Trim(movie.title) # <<>>
  /\ Truthy(movie.imdbId)
  /\ StartsWith(movie.imdbId, S_tt)

\* scrapeTrending, from "await this.close()" returning on the normal path
\* to its return.
TrendingValidate(s, r) ==
  IF Len(s.movieList[r]) = 0
  THEN TrendingRespond(s, r, <<>>)
  ELSE TrendingRespond(s, r, SelectSeq(s.movieList[r], ValidMovie))

RECURSIVE CloseSync(_, _, _)

\* A catch that returns [] without closing.
TrendingCatch_withoutClose(s, r) == TrendingRespond(s, r, <<>>)

\* scrapeTrending, catch: close the session and return [].
TrendingCatch(s, r) == CloseSync(s, r, "trendErr")

\* A small number in a template literal.
NumStr(n) == <<"0", "1", "2", "3", "4", "5", "6", "7", "8", "9">>[n + 1]

\* startWithRetry's final throw, and what its caller does with it:
\* scrapeCompleteMovieData lets it through to the controller's catch,
\* scrapeTrending catches it.
StartFailed(s, r) ==
  LET msg == <<"Failed to start browser after ", NumStr(maxRetries),
               " attempts. Last error: ">> \o s.lastError[r].message
      s1  == [s EXCEPT !.startResult[r] = "failed"]
  IN  IF s.kind[r] = "movie" THEN MovieCatch(s1, r, msg)
      ELSE TrendingCatch(s1, r)

\* startWithRetry: strategy i of the current attempt is invoked.
Launch(s, r, i) ==
  [s EXCEPT !.pc[r] = "launch", !.strat[r] = i, !.target[r] = NoCall]

\* A catch without "if (attempt === maxRetries) break" in a loop without
\* its bound.
AfterCleanup_retriesForever(s, r) ==
  [s EXCEPT !.pc[r] = "backoff", !.target[r] = NoCall,
            !.timer[r] = retryDelayMs * s.attempt[r]]

\* A catch that waits the same time after every attempt.
AfterCleanup_fixedDelay(s, r) ==
  IF s.attempt[r] = maxRetries THEN StartFailed(s, r)
  ELSE [s EXCEPT !.pc[r] = "backoff", !.target[r] = NoCall,
                 !.timer[r] = retryDelayMs]

\* startWithRetry, catch, after "await this.close()".
AfterCleanup(s, r) ==
  IF s.attempt[r] = maxRetries THEN StartFailed(s, r)
  ELSE [s EXCEPT !.pc[r] = "backoff", !.target[r] = NoCall,
                 !.timer[r] = retryDelayMs * s.attempt[r]]

\* Where control goes when close() returns.
AfterClose(s, r, k) ==
  CASE k = "retry"    -> AfterCleanup(s, r)
    [] k = "movieOk"  -> MovieRespond(s, r)
    [] k = "trendOk"  -> TrendingValidate(s, r)
    [] k = "trendErr" -> TrendingRespond(s, r, <<>>)

\* close() without the test of the browser handle.
CloseCall_withoutNullCheck(s, r) ==
  [s EXCEPT !.pc[r] = "closing", !.target[r] = CallOn(s, s.browser)]

\* close(), up to "await this.browser.close()", or up to its return when
\* the browser handle is null and there is nothing to do.
CloseCall(s, r) ==
  IF s.browser # Null
  THEN [s EXCEPT !.pc[r] = "closing", !.target[r] = CallOn(s, s.browser)]
  ELSE [s EXCEPT !.lastClose[r] = "noop"]

\* "await this.close()" at a place from which control goes on to k.
CloseSync(s, r, k) ==
  LET s1 == CloseCall([s EXCEPT !.ctx[r] = k], r)
  IN  IF s1.pc[r] = "closing" THEN s1 ELSE AfterClose(s1, r, k)

\* close(), from browser.close() settling to its return: the handles are
\* cleared only when it resolved; a rejection is logged.
CloseReturn(s, r, o) ==
  LET b  == s.target[r].on
      s1 == IF o = "threwLive" THEN s
            ELSE [s EXCEPT !.live = @ \ {b}]
  IN  IF o = "ok"
      THEN [s1 EXCEPT !.browser = Null, !.page = Null, !.lastClose[r] = "ok",
                      !.pc[r] = "closed", !.target[r] = NoCall]
      ELSE [s1 EXCEPT !.lastClose[r] = "threw",
                      !.pc[r] = "closed", !.target[r] = NoCall]

\* A close() without its catch: what browser.close() throws reaches the
\* controller.
CloseSettle_propagates(s, r, o) ==
  IF o = "ok" THEN AfterClose(CloseReturn(s, r, o), r, s.ctx[r])
  ELSE Respond([CloseReturn(s, r, o) EXCEPT
                  !.lastError[r] = ErrorIn(s, r, E_teardown)],
               r, 500, E_teardown)

CloseSettle(s, r, o) == AfterClose(CloseReturn(s, r, o), r, s.ctx[r])

\* A catch that remembers the first error only.
AttemptFailed_keepsFirst(s, r, msg) ==
  CloseSync([s EXCEPT !.lastError[r] =
                        IF @ = NoError THEN ErrorIn(s, r, msg) ELSE @],
            r, "retry")

\* startWithRetry, catch: remember the error, clean up.
AttemptFailed(s, r, msg) ==
  CloseSync([s EXCEPT !.lastError[r] = ErrorIn(s, r, msg)], r, "retry")

\* A call on this.page: a TypeError when the handle is null.
PageCall(s, r, at, onNull) ==
  IF s.page = Null THEN onNull
  ELSE [s EXCEPT !.pc[r] = at, !.target[r] = CallOn(s, s.page)]

\* ------------------------------------------------------------- extractors
\* The awaited page calls on an extractor's main path: scrapeBasicInfo
\* evaluates once, scrapeStoryline waits for two selectors and evaluates,
\* scrapeVideoSources waits and evaluates twice, the others wait and
\* evaluate once.
NumCalls(x) ==
  CASE x = "basicInfo" -> 1
    [] x \in {"storyline", "videoSources"} -> 3
    [] OTHER -> 2

\* scrapeCast, scrapeVideos and scrapeImages hand page.$eval, which passes
\* ONE element, a callback that calls .map on it: that call always throws.
CallAlwaysThrows(x, k) == x \in {"cast", "videos", "images"} /\ k = 2

\* scrapeVideoSources and scrapePoster evaluate once more in their catch.
HasFallback(x) == x \in {"videoSources", "poster"}

\* What an extractor returns from its (last) catch.
DefaultOf(x) ==
  CASE x = "basicInfo" -> "emptyInfo"
    [] x \in {"storyline", "ratings", "poster"} -> "null"
    [] OTHER -> "emptyList"

Resolved(v) == [st |-> "resolved", k |-> 0, call |-> NoCall, val |-> v]
Rejected == [st |-> "rejected", k |-> 0, call |-> NoCall, val |-> "none"]

\* An extractor up to its first await: it throws when there is no page.
TaskEntry(s, x) ==
  IF s.page = Null THEN Rejected
  ELSE [st |-> "call", k |-> 1, call |-> CallOn(s, s.page), val |-> "none"]

\* An extractor's catch block.
TaskCatch(s, x) ==
  IF HasFallback(x) /\ s.page # Null
  THEN [st |-> "fallback", k |-> 0, call |-> CallOn(s, s.page), val |-> "none"]
  ELSE Resolved(DefaultOf(x))

\* An extractor from one of its awaited calls settling to its next await
\* or its return.
TaskStep(s, x, task, o) ==
  IF task.st = "fallback"
  THEN IF o = "ok" THEN Resolved("fallback") ELSE Resolved(DefaultOf(x))
  ELSE IF o # "ok" THEN TaskCatch(s, x)
  ELSE IF task.k = NumCalls(x) THEN Resolved("extracted")
  ELSE IF s.page = Null THEN TaskCatch(s, x)
  ELSE [task EXCEPT !.k = @ + 1, !.call = CallOn(s, s.page)]

Settled(task) == task.st \in {"resolved", "rejected"}

\* A .catch handler that passes the rejection on.
CatchToNull_passesOn(task) == task.val

\* The .catch handler on each extractor's promise.
CatchToNull(task) == IF task.st = "rejected" THEN "null" ELSE task.val

\* The movieData object literal: url, scrapedAt, the spread of basicInfo,
\* then the seven other sections.
MovieData(link, res) ==
  LET info == res["basicInfo"]
      keys == {"url", "scrapedAt"}
                \cup (IF info = "null" THEN {} ELSE {"imdbId", "title"})
                \cup (SectionSet \ {"basicInfo"})
  IN  [key \in keys |->
         CASE key = "url" -> link
           [] key = "scrapedAt" -> "now"
           [] key \in {"imdbId", "title"} ->
                IF info = "emptyInfo" THEN "emptyString" ELSE info
           [] OTHER -> res[key]]

LinkOf(id) == <<"https://www.imdb.com/title/">> \o id \o <<"/">>

\* Join without its "await this.close()".
Join_withoutClose(s, r) ==
  LET res == [x \in SectionSet |-> CatchToNull(s.ext[r][x])]
      rec == MovieData(LinkOf(s.body[r].imdbid), res)
  IN  MovieRespond([s EXCEPT !.movieData[r] = rec,
                             !.ext[r] = [x \in SectionSet |-> IdleTask]], r)

\* scrapeCompleteMovieData, from Promise.all resolving to "await
\* this.close()".
Join(s, r) ==
  LET res == [x \in SectionSet |-> CatchToNull(s.ext[r][x])]
      rec == MovieData(LinkOf(s.body[r].imdbid), res)
  IN  CloseSync([s EXCEPT !.movieData[r] = rec,
                          !.ext[r] = [x \in SectionSet |-> IdleTask]],
                r, "movieOk")

\* scrapeCompleteMovieData, from startWithRetry returning to the await of
\* Promise.all: the page check, then every extractor up to its first await.
StartExtractors(s, r) ==
  IF s.page = Null THEN MovieCatch(s, r, E_pageNotInitialized)
  ELSE LET s1 == [s EXCEPT !.pc[r] = "extract", !.target[r] = NoCall,
                           !.ext[r] = [x \in SectionSet |-> TaskEntry(s, x)]]
       IN  IF \A x \in SectionSet : Settled(s1.ext[r][x]) THEN Join(s1, r)
           ELSE s1

\* scrapeTrending, from startWithRetry returning to the selector wait.
StartTrending(s, r) ==
  IF s.page = Null THEN TrendingCatch(s, r)
  ELSE PageCall(s, r, "listWait", s)

\* startWithRetry returned.
Started(s, r) ==
  LET s1 == [s EXCEPT !.startResult[r] = "ok", !.timer[r] = 0]
  IN  IF s.kind[r] = "movie" THEN StartExtractors(s1, r)
      ELSE StartTrending(s1, r)

\* ---------------------------------------------------------- startWithRetry
\* One attempt begins: the first strategy is invoked.
BeginAttempt(s, r, a) ==
  Launch([s EXCEPT !.attempt[r] = a, !.timer[r] = 0], r, 1)

\* A launch failure that fails the attempt at once.
LaunchSettle_withoutFallback(s, r, o) ==
  IF o = "ok"
  THEN LET b  == BrowserOf(r, s.attempt[r])
           s1 == [s EXCEPT !.browser = b, !.live = @ \cup {b},
                           !.lastClose[r] = "none"]
       IN  [s1 EXCEPT !.pc[r] = "newPage", !.target[r] = CallOn(s1, b)]
  ELSE AttemptFailed(s, r, E_allStrategies)

\* A strategy's puppeteer.launch settles: on success the browser handle is
\* set and newPage is called on it; on failure the next strategy is
\* invoked, or the attempt fails when there is none left.
LaunchSettle(s, r, o) ==
  IF o = "ok"
  THEN LET b  == BrowserOf(r, s.attempt[r])
           s1 == [s EXCEPT !.browser = b, !.live = @ \cup {b},
                           !.lastClose[r] = "none"]
       IN  [s1 EXCEPT !.pc[r] = "newPage", !.target[r] = CallOn(s1, b)]
  ELSE IF s.strat[r] < Len(strategies) THEN Launch(s, r, s.strat[r] + 1)
  ELSE AttemptFailed(s, r, E_allStrategies)

\* browser.newPage() settles: the page handle is set and setUserAgent is
\* called on it.
NewPageSettle(s, r, o) ==
  IF o = "ok"
  THEN LET s1 == [s EXCEPT !.page = s.target[r].on]
       IN  PageCall(s1, r, "setUserAgent", s1)
  ELSE AttemptFailed(s, r, E_newPage)

\* page.setUserAgent settles: setViewport is called on this.page.
SetUserAgentSettle(s, r, o) ==
  IF o = "ok"
  THEN PageCall(s, r, "setViewport", AttemptFailed(s, r, E_typeError))
  ELSE AttemptFailed(s, r, E_pageCall)

\* page.setViewport settles: the direct navigation is issued.  A TypeError
\* on a null page is caught by the inner catch, whose own goto throws it
\* again, to the outer catch.
SetViewportSettle(s, r, o) ==
  IF o = "ok"
  THEN PageCall(s, r, "gotoDirect", AttemptFailed(s, r, E_typeError))
  ELSE AttemptFailed(s, r, E_pageCall)

\* A direct navigation whose failure fails the attempt.
GotoDirectSettle_withoutGateway(s, r, o) ==
  IF o = "ok"
  THEN [s EXCEPT !.pc[r] = "settle", !.target[r] = NoCall,
                 !.timer[r] = settleDelayMs]
  ELSE AttemptFailed(s, r, E_navigation)

\* The direct page.goto settles: on failure the gateway navigation is
\* issued on this.page.
GotoDirectSettle(s, r, o) ==
  IF o = "ok"
  THEN [s EXCEPT !.pc[r] = "settle", !.target[r] = NoCall,
                 !.timer[r] = settleDelayMs]
  ELSE PageCall(s, r, "gotoGateway", AttemptFailed(s, r, E_typeError))

\* The gateway page.goto settles.
GotoGatewaySettle(s, r, o) ==
  IF o = "ok"
  THEN [s EXCEPT !.pc[r] = "settle", !.target[r] = NoCall,
                 !.timer[r] = settleDelayMs]
  ELSE AttemptFailed(s, r, E_navigation)

\* ------------------------------------------------------------- controller
Bodies ==
  {[present |-> FALSE, imdbid |-> <<>>],
   [present |-> TRUE, imdbid |-> <<>>],
   [present |-> TRUE, imdbid |-> S_tt \o <<"1">>]}

\* !imdbid
Falsy(b) == ~b.present \/ ~Truthy(b.imdbid)

\* scrapeMovie without the check of imdbid.
ScrapeMovie_withoutValidation(s, r) == BeginAttempt(s, r, 1)

\* scrapeMovie up to its first await: 400 without an imdbid, else
\* scrapeCompleteMovieData, which calls startWithRetry.
ScrapeMovie(s, r) ==
  IF Falsy(s.body[r]) THEN Respond(s, r, 400, E_imdbidRequired)
  ELSE BeginAttempt(s, r, 1)

\* scrapeTrendingMovies up to its first await.
ScrapeTrendingMovies(s, r) == BeginAttempt(s, r, 1)

\* --------------------------------------------------------- scrapeTrending
Hrefs ==
  {S_titlePrefix \o S_tt \o <<"1", "/">>,
   S_titlePrefix \o S_tt \o <<"/">>,
   <<"/", "n", "a", "m", "e", "/", "n", "m", "1", "/">>}

Texts == {<<>>, <<" ">>, <<" ", "D", " ">>}

Elements == [href : Hrefs, text : Texts]

\* The .ipc-metadata-list-summary-item elements of the loaded page.
ElementLists == UNION {[1..n -> Elements] : n \in 0..MaxItems}

\* The $$eval callback for one element (the fields the filters read).
ExtractItem(el) == [imdbId |-> ImdbIdMatch(el.href), title |-> Trim(el.text)]

ExtractList(els) == [i \in 1..Len(els) |-> ExtractItem(els[i])]

\* waitForSelector settles: $$eval is called on this.page.
ListWaitSettle(s, r, o) ==
  IF o = "ok" THEN PageCall(s, r, "listEval", TrendingCatch(s, r))
  ELSE TrendingCatch(s, r)

\* $$eval settles with the list extracted from els: close the session.
ListEvalSettle(s, r, o, els) ==
  IF o = "ok"
  THEN CloseSync([s EXCEPT !.movieList[r] = ExtractList(els)], r, "trendOk")
  ELSE TrendingCatch(s, r)

\* ---------------------------------------------------------------- actions
Quiet == \A r \in Requests : pc[r] \in {"idle", "done"}

\* The locals and the response of a request that has been answered are
\* kept until the next request arrives, and dropped then.
Answered(s) ==
  LET gone == {q \in Requests : s.pc[q] = "done"}
      Drop(f, v) == [q \in Requests |-> IF q \in gone THEN v ELSE f[q]]
  IN  [s EXCEPT !.kind = Drop(@, "none"),
                !.body = Drop(@, [present |-> FALSE, imdbid |-> <<>>]),
                !.attempt = Drop(@, 0), !.strat = Drop(@, 0),
                !.ctx = Drop(@, "none"), !.timer = Drop(@, 0),
                !.lastError = Drop(@, NoError),
                !.lastClose = Drop(@, "none"),
                !.startResult = Drop(@, "none"),
                !.movieList = Drop(@, <<>>), !.returned = Drop(@, <<>>),
                !.status = Drop(@, 0), !.message = Drop(@, <<>>),
                !.movieData = Drop(@, <<>>), !.data = Drop(@, <<>>),
                !.count = Drop(@, 0)]

\* Requests are numbered in the order they arrive.
ReceiveMovie(r) ==
  /\ pc[r] = "idle"
  /\ \A q \in 1..(r - 1) : pc[q] # "idle"
  /\ \E b \in Bodies :
       Commit(ScrapeMovie([Answered(State) EXCEPT !.kind[r] = "movie",
                                                  !.body[r] = b], r))

ReceiveTrending(r) ==
  /\ pc[r] = "idle"
  /\ \A q \in 1..(r - 1) : pc[q] # "idle"
  /\ Commit(ScrapeTrendingMovies(
              [Answered(State) EXCEPT !.kind[r] = "trending"], r))

LaunchSettles(r) ==
  /\ pc[r] = "launch"
  /\ \E o \in LaunchOutcomes(State) :
       Commit(LaunchSettle(Charge(State, NoCall, o), r, o))

NewPageSettles(r) ==
  /\ pc[r] = "newPage"
  /\ \E o \in CallOutcomes(State, target[r]) :
       Commit(NewPageSettle(Charge(State, target[r], o), r, o))

SetUserAgentSettles(r) ==
  /\ pc[r] = "setUserAgent"
  /\ \E o \in CallOutcomes(State, target[r]) :
       Commit(SetUserAgentSettle(Charge(State, target[r], o), r, o))

SetViewportSettles(r) ==
  /\ pc[r] = "setViewport"
  /\ \E o \in CallOutcomes(State, target[r]) :
       Commit(SetViewportSettle(Charge(State, target[r], o), r, o))

GotoDirectSettles(r) ==
  /\ pc[r] = "gotoDirect"
  /\ \E o \in CallOutcomes(State, target[r]) :
       Commit(GotoDirectSettle(Charge(State, target[r], o), r, o))

GotoGatewaySettles(r) ==
  /\ pc[r] = "gotoGateway"
  /\ \E o \in CallOutcomes(State, target[r]) :
       Commit(GotoGatewaySettle(Charge(State, target[r], o), r, o))

\* The 3000 ms settle delay elapses: startWithRetry returns.
SettleElapses(r) ==
  /\ pc[r] = "settle"
  /\ Commit(Started(State, r))

\* The 2000 * attempt ms delay elapses: the next attempt begins.
BackoffElapses(r) ==
  /\ pc[r] = "backoff"
  /\ Commit(BeginAttempt(State, r, attempt[r] + 1))

CloseSettles(r) ==
  /\ pc[r] = "closing"
  /\ \E o \in TeardownOutcomes(State, target[r]) :
       Commit(CloseSettle(Charge(State, target[r], o), r, o))

ListWaitSettles(r) ==
  /\ pc[r] = "listWait"
  /\ \E o \in CallOutcomes(State, target[r]) :
       Commit(ListWaitSettle(Charge(State, target[r], o), r, o))

ListEvalSettles(r) ==
  /\ pc[r] = "listEval"
  /\ \E o \in CallOutcomes(State, target[r]) :
       \E els \in (IF o = "ok" THEN ElementLists ELSE {<<>>}) :
         Commit(ListEvalSettle(Charge(State, target[r], o), r, o, els))

\* The awaited call of one extractor task settles; when it was the last
\* task to settle, Promise.all resolves.
ExtractorSettle(s, r, x, o) ==
  LET s1 == [s EXCEPT !.ext[r][x] = TaskStep(s, x, @, o)]
  IN  IF \A y \in SectionSet : Settled(s1.ext[r][y]) THEN Join(s1, r) ELSE s1

TaskOutcomes(s, x, task) ==
  IF task.st = "call" /\ CallAlwaysThrows(x, task.k) THEN {"throws"}
  ELSE CallOutcomes(s, task.call)

\* The tasks of one Promise.all only read this.page and write their own
\* slot, so the order in which their calls settle does not matter to
\* anything else: the pending task that comes first in the array is the
\* one resumed.  Each of its calls still settles at an arbitrary moment
\* relative to the other requests.
Resumable(s, r) ==
  LET pending == {i \in 1..Len(Sections) : ~Settled(s.ext[r][Sections[i]])}
  IN  {Sections[i] : i \in {j \in pending : \A k \in pending : j <= k}}

ExtractorSettles(r) ==
  /\ pc[r] = "extract"
  /\ \E x \in Resumable(State, r) :
       \E o \in TaskOutcomes(State, x, ext[r][x]) :
         Commit(ExtractorSettle(Charge(State, ext[r][x].call, o), r, x, o))

Step(r) ==
  \/ LaunchSettles(r)
  \/ NewPageSettles(r)
  \/ SetUserAgentSettles(r)
  \/ SetViewportSettles(r)
  \/ GotoDirectSettles(r)
  \/ GotoGatewaySettles(r)
  \/ SettleElapses(r)
  \/ BackoffElapses(r)
  \/ CloseSettles(r)
  \/ ExtractorSettles(r)
  \/ ListWaitSettles(r)
  \/ ListEvalSettles(r)

\* Requests arrive at any time, also while others are being served.
Next == \E r \in Requests : ReceiveMovie(r) \/ ReceiveTrending(r) \/ Step(r)

Spec == Init /\ [][Next]_vars

\* Requests arrive one at a time: none while another is being served.
NextSeq ==
  \E r \in Requests :
    \/ Quiet /\ ReceiveMovie(r)
    \/ Quiet /\ ReceiveTrending(r)
    \/ Step(r)

InitSeq ==
  /\ browser = Null
  /\ page = Null
  /\ live = {}
  /\ faults = MaxFaults
  /\ kind = [r \in Requests |-> "none"]
  /\ body = [r \in Requests |-> [present |-> FALSE, imdbid |-> <<>>]]
  /\ pc = [r \in Requests |-> "idle"]
  /\ attempt = [r \in Requests |-> 0]
  /\ strat = [r \in Requests |-> 0]
  /\ target = [r \in Requests |-> NoCall]
  /\ ctx = [r \in Requests |-> "none"]
  /\ timer = [r \in Requests |-> 0]
  /\ lastError = [r \in Requests |-> NoError]
  /\ lastClose = [r \in Requests |-> "none"]
  /\ startResult = [r \in Requests |-> "none"]
  /\ ext = [r \in Requests |-> [x \in SectionSet |-> IdleTask]]
  /\ movieList = [r \in Requests |-> <<>>]
  /\ returned = [r \in Requests |-> <<>>]
  /\ status = [r \in Requests |-> 0]
  /\ message = [r \in Requests |-> <<>>]
  /\ movieData = [r \in Requests |-> <<>>]
  /\ data = [r \in Requests |-> <<>>]
  /\ count = [r \in Requests |-> 0]
  /\ fetch = IdleFetch
  /\ dom = <<>>
  /\ evaluated = NotEvaluated

SpecSeq == InitSeq /\ [][NextSeq]_vars

\* No request has arrived and scrapeWithRetry has not been called; budget
\* failures can be injected.
Idle(budget) ==
  /\ browser = Null
  /\ page = Null
  /\ live = {}
  /\ faults = budget
  /\ kind = [r \in Requests |-> "none"]
  /\ body = [r \in Requests |-> [present |-> FALSE, imdbid |-> <<>>]]
  /\ pc = [r \in Requests |-> "idle"]
  /\ attempt = [r \in Requests |-> 0]
  /\ strat = [r \in Requests |-> 0]
  /\ target = [r \in Requests |-> NoCall]
  /\ ctx = [r \in Requests |-> "none"]
  /\ timer = [r \in Requests |-> 0]
  /\ lastError = [r \in Requests |-> NoError]
  /\ lastClose = [r \in Requests |-> "none"]
  /\ startResult = [r \in Requests |-> "none"]
  /\ ext = [r \in Requests |-> [x \in SectionSet |-> IdleTask]]
  /\ movieList = [r \in Requests |-> <<>>]
  /\ returned = [r \in Requests |-> <<>>]
  /\ status = [r \in Requests |-> 0]
  /\ message = [r \in Requests |-> <<>>]
  /\ movieData = [r \in Requests |-> <<>>]
  /\ data = [r \in Requests |-> <<>>]
  /\ count = [r \in Requests |-> 0]
  /\ fetch = IdleFetch

NoRequests == Idle(0)

\* One request, from its arrival to its answer.
InitOne ==
  /\ Idle(OneFaults)
  /\ dom = <<>>
  /\ evaluated = NotEvaluated

NextOne == ReceiveMovie(1) \/ ReceiveTrending(1) \/ Step(1)

SpecOne == InitOne /\ [][NextOne]_vars

\* Every awaited browser step and every delay of the request settles in
\* the end.
SpecOneLive == SpecOne /\ WF_vars(Step(1))

\* ------------------------------------------------ the aggregation, alone
\* The ways an extractor's promise can settle.
SettledTasks(x) ==
  {Rejected, Resolved(DefaultOf(x)), Resolved("extracted")}
    \cup (IF HasFallback(x) THEN {Resolved("fallback")} ELSE {})

\* Promise.all resolves: every task has settled.
PromiseAllResolves(r) ==
  /\ pc[r] = "extract"
  /\ \A x \in SectionSet : Settled(ext[r][x])
  /\ Commit(Join(State, r))

\* scrapeCompleteMovieData at the await of Promise.all, for every way the
\* eight promises can have settled.
InitAgg ==
  /\ browser = BrowserOf(1, 1)
  /\ page = BrowserOf(1, 1)
  /\ live = {BrowserOf(1, 1)}
  /\ faults = 0
  /\ kind = [r \in Requests |-> IF r = 1 THEN "movie" ELSE "none"]
  /\ body = [r \in Requests |->
               IF r = 1 THEN [present |-> TRUE, imdbid |-> S_tt \o <<"1">>]
               ELSE [present |-> FALSE, imdbid |-> <<>>]]
  /\ pc = [r \in Requests |-> IF r = 1 THEN "extract" ELSE "idle"]
  /\ attempt = [r \in Requests |-> IF r = 1 THEN 1 ELSE 0]
  /\ strat = [r \in Requests |-> 0]
  /\ target = [r \in Requests |-> NoCall]
  /\ ctx = [r \in Requests |-> "none"]
  /\ timer = [r \in Requests |-> 0]
  /\ lastError = [r \in Requests |-> NoError]
  /\ lastClose = [r \in Requests |-> "none"]
  /\ startResult = [r \in Requests |-> IF r = 1 THEN "ok" ELSE "none"]
  /\ \E tasks \in [SectionSet -> UNION {SettledTasks(x) : x \in SectionSet}] :
       /\ \A x \in SectionSet : tasks[x] \in SettledTasks(x)
       /\ ext = [r \in Requests |->
                   IF r = 1 THEN tasks ELSE [x \in SectionSet |-> IdleTask]]
  /\ movieList = [r \in Requests |-> <<>>]
  /\ returned = [r \in Requests |-> <<>>]
  /\ status = [r \in Requests |-> 0]
  /\ message = [r \in Requests |-> <<>>]
  /\ movieData = [r \in Requests |-> <<>>]
  /\ data = [r \in Requests |-> <<>>]
  /\ count = [r \in Requests |-> 0]
  /\ fetch = IdleFetch
  /\ dom = <<>>
  /\ evaluated = NotEvaluated

NextAgg == \E r \in Requests : PromiseAllResolves(r) \/ CloseSettles(r)

SpecAgg == InitAgg /\ [][NextAgg]_vars

\* -------------------------------------- ScraperAPIService.scrapeWithRetry
\* What axios.get can answer with, and fail with.
FetchBodies == {"html1", "html2"}
FetchErrors == {"timeout", "status 429", "status 500"}

\* The head of the for loop: the next scrapeUrl call, or the final throw.
FetchLoop(f) ==
  IF f.attempt <= f.maxRetries
  THEN [f EXCEPT !.pc = "scrapeUrl", !.calls = @ + 1]
  ELSE [f EXCEPT !.pc = "threw", !.thrown = f.lastError]

\* scrapeWithRetry(url, n) up to its first await.
ScrapeWithRetry(f, n) ==
  FetchLoop([f EXCEPT !.maxRetries = n, !.attempt = 1])

\* scrapeUrl resolved with body b: return it.
FetchReturn(f, b) ==
  [f EXCEPT !.pc = "returned", !.html = [body |-> b, attempt |-> f.attempt]]

\* A catch whose first delay is the base delay.
FetchCatch_fromBase(f, e) ==
  LET f1 == [f EXCEPT !.lastError = [message |-> e, attempt |-> f.attempt]]
  IN  IF f.attempt < f.maxRetries
      THEN [f1 EXCEPT !.pc = "wait",
                      !.waits = Append(@, 2 ^ (f.attempt - 1) * fetchDelayMs)]
      ELSE FetchLoop([f1 EXCEPT !.attempt = @ + 1])

\* scrapeUrl rejected with e: remember it, wait 2^attempt seconds unless
\* this was the last attempt.
FetchCatch(f, e) ==
  LET f1 == [f EXCEPT !.lastError = [message |-> e, attempt |-> f.attempt]]
  IN  IF f.attempt < f.maxRetries
      THEN [f1 EXCEPT !.pc = "wait",
                      !.waits = Append(@, 2 ^ f.attempt * fetchDelayMs)]
      ELSE FetchLoop([f1 EXCEPT !.attempt = @ + 1])

\* The delay elapsed: attempt++ and the loop head.
FetchResume(f) == FetchLoop([f EXCEPT !.attempt = @ + 1])

FetchCalled ==
  /\ fetch.pc = "idle"
  /\ \E n \in 0..MaxFetchRetries :
       Commit([State EXCEPT !.fetch = ScrapeWithRetry(fetch, n)])

ScrapeUrlResolves ==
  /\ fetch.pc = "scrapeUrl"
  /\ \E b \in FetchBodies :
       Commit([State EXCEPT !.fetch = FetchReturn(fetch, b)])

ScrapeUrlRejects ==
  /\ fetch.pc = "scrapeUrl"
  /\ \E e \in FetchErrors :
       Commit([State EXCEPT !.fetch = FetchCatch(fetch, e)])

FetchDelayElapses ==
  /\ fetch.pc = "wait"
  /\ Commit([State EXCEPT !.fetch = FetchResume(fetch)])

NextFetch ==
  \/ FetchCalled
  \/ ScrapeUrlResolves
  \/ ScrapeUrlRejects
  \/ FetchDelayElapses

SpecFetch == Init /\ [][NextFetch]_vars

\* --------------------------------------- scrapePoster, the srcset branch
S_http == <<"h", "t", "t", "p">>

\* The srcset attribute after split(",") and split(" "): per entry parts[0]
\* and parts[1] ("" when there is none).  Descriptors are widths, a density
\* or absent; a descriptor that does not start with a digit (parseInt
\* gives NaN) is not among them.
PosterUrls ==
  {S_http \o <<":", "a">>, S_http \o <<":", "b">>, <<"/", "c">>}

Descriptors ==
  {<<>>, <<"1", "w">>, <<"2", "w">>, <<"1", "0", "w">>, <<"2", "x">>}

Srcsets ==
  UNION {[1..n -> [url : PosterUrls, descriptor : Descriptors]] :
           n \in 1..MaxEntries}

\* String.prototype.replace("w", ""): the first "w" is removed.
ReplaceW(s) ==
  LET ws == {i \in 1..Len(s) : s[i] = "w"}
  IN  IF ws = {} THEN s
      ELSE LET i == CHOOSE j \in ws : \A k \in ws : j <= k
           IN  SubSeq(s, 1, i - 1) \o SubSeq(s, i + 1, Len(s))

DigitValue(c) ==
  CHOOSE n \in 0..9 :
    <<"0", "1", "2", "3", "4", "5", "6", "7", "8", "9">>[n + 1] = c

\* parseInt of a string that starts with a digit: the value of its
\* longest prefix of digits.
RECURSIVE ParseDigits(_, _)
ParseDigits(s, acc) ==
  IF s = <<>> \/ Head(s) \notin Digits THEN acc
  ELSE ParseDigits(Tail(s), 10 * acc + DigitValue(Head(s)))

ParseInt(s) == ParseDigits(s, 0)

\* The callback of srcset.split(",").map.
ParseEntry(e) ==
  LET descriptor == Trim(e.descriptor)
  IN  [url |-> Trim(e.url),
       width |-> IF Truthy(descriptor) THEN ParseInt(ReplaceW(descriptor))
                 ELSE 0]

\* An insertion that puts x before the entries of its own width.
SortInsert_beforeEquals(sorted, x) ==
  LET before == {i \in 1..Len(sorted) : sorted[i].width > x.width}
      n      == Cardinality(before)
  IN  SubSeq(sorted, 1, n) \o <<x>> \o SubSeq(sorted, n + 1, Len(sorted))

\* Array.prototype.sort((a, b) => b.width - a.width) is stable: x goes
\* behind every entry at least as wide that came before it.
SortInsert(sorted, x) ==
  LET before == {i \in 1..Len(sorted) : sorted[i].width >= x.width}
      n      == Cardinality(before)
  IN  SubSeq(sorted, 1, n) \o <<x>> \o SubSeq(sorted, n + 1, Len(sorted))

RECURSIVE SortByWidth(_)
SortByWidth(entries) ==
  IF entries = <<>> THEN <<>>
  ELSE SortInsert(SortByWidth(SubSeq(entries, 1, Len(entries) - 1)),
                  entries[Len(entries)])

\* The srcset branch: the URL returned, or nothing, in which case the
\* callback goes on to the src attribute.
SrcsetSelection(srcset) ==
  LET srcsetEntries  == [i \in 1..Len(srcset) |-> ParseEntry(srcset[i])]
      highestQuality == SortByWidth(srcsetEntries)[1]
  IN  IF /\ highestQuality.width > 0
         /\ Truthy(highestQuality.url)
         /\ StartsWith(highestQuality.url, S_http)
      THEN [st |-> "url", url |-> highestQuality.url, list |-> <<>>]
      ELSE [st |-> "none", url |-> <<>>, list |-> <<>>]

PosterEvaluates ==
  /\ evaluated.st = "pending"
  /\ Commit([State EXCEPT !.evaluated = SrcsetSelection(dom)])

InitPoster ==
  /\ NoRequests
  /\ dom \in Srcsets
  /\ evaluated = NotEvaluated

SpecPoster == InitPoster /\ [][PosterEvaluates]_vars

\* ------------------------------------------------------ scrapeVideoSources
\* A <video> element: its src ("" when it has none), its class, and the
\* src of its <source> child ("" when it has no such child or the child
\* has no src).  The elements carry no id attribute.
VideoUrls == {<<"u">>, <<"v">>}

VideoClasses == {<<>>, <<"jw-video">>, <<"imdb-player">>}

VideoElements ==
  [src : VideoUrls \cup {<<>>}, class : VideoClasses,
   source : VideoUrls \cup {<<>>}]

VideoDocs == UNION {[1..n -> VideoElements] : n \in 0..MaxVideos}

RECURSIVE Flatten(_)
Flatten(seqs) ==
  IF seqs = <<>> THEN <<>> ELSE Head(seqs) \o Flatten(Tail(seqs))

\* An entry pushed to sources; id stands for the generated
\* `${via}-${index}`.
SourceEntry(src, via, index) ==
  IF Truthy(src) THEN <<[src |-> src, via |-> via, index |-> index]>>
  ELSE <<>>

\* document.querySelectorAll(selector) over the <video> elements, for a
\* selector that matches the given classes.
QuerySelectorAll(doc, classes) ==
  LET Matches(v) == v.class \in classes
  IN  SelectSeq(doc, Matches)

\* The first page.evaluate callback: every video's own src, then that of
\* its <source> child.
VideoSources(doc) ==
  Flatten([i \in 1..Len(doc) |->
             SourceEntry(doc[i].src, "video", i - 1)
             \o SourceEntry(doc[i].source, "video-source", i - 1)])

\* The second page.evaluate callback: ".jw-video, .jw-media video", then
\* 'video[class*="jw"], video[class*="imdb"]'.
ImdbVideoSources(doc) ==
  LET jwVideos   == QuerySelectorAll(doc, {<<"jw-video">>})
      imdbVideos == QuerySelectorAll(doc, {<<"jw-video">>, <<"imdb-player">>})
  IN  Flatten([i \in 1..Len(jwVideos) |->
                 SourceEntry(jwVideos[i].src, "imdb-video", i - 1)])
      \o Flatten([i \in 1..Len(imdbVideos) |->
                    SourceEntry(imdbVideos[i].src, "imdb-specific-video",
                                i - 1)])

\* The index of the last entry with the given src.
FindIndex_last(self, src) ==
  CHOOSE i \in 1..Len(self) :
    /\ self[i].src = src
    /\ \A j \in 1..Len(self) : self[j].src = src => j <= i

\* self.findIndex((s) => s.src === src), for a src that occurs in self.
FindIndex(self, src) ==
  CHOOSE i \in 1..Len(self) :
    /\ self[i].src = src
    /\ \A j \in 1..Len(self) : self[j].src = src => i <= j

\* allSources.filter((source, index, self) => index === self.findIndex(...))
UniqueSources(allSources) ==
  LET Kept(index) == index = FindIndex(allSources, allSources[index].src)
      kept == SelectSeq([i \in 1..Len(allSources) |-> i], Kept)
  IN  [k \in 1..Len(kept) |-> allSources[kept[k]]]

\* The callback of the catch block: one entry per <video> that has a src.
FallbackSources(doc) ==
  Flatten([i \in 1..Len(doc) |->
             SourceEntry(doc[i].src, "fallback-video", i - 1)])

\* await this.page.waitForSelector("video", { timeout: 10000 }): it
\* resolves when a <video> is there, and it may time out even then (dom is
\* the document as the later callbacks find it).
WaitForVideoSettles ==
  /\ evaluated.st = "pending"
  /\ \/ /\ dom # <<>>
        /\ Commit([State EXCEPT !.evaluated.st = "found"])
     \/ Commit([State EXCEPT !.evaluated.st = "caught"])

\* const videoSources = await this.page.evaluate(...)
VideoEvaluateSettles ==
  /\ evaluated.st = "found"
  /\ \/ Commit([State EXCEPT !.evaluated.st = "native",
                              !.evaluated.list = VideoSources(dom)])
     \/ Commit([State EXCEPT !.evaluated.st = "caught"])

\* const imdbVideoSources = await this.page.evaluate(...), and on success
\* the rest of the try block.
ImdbEvaluateSettles ==
  /\ evaluated.st = "native"
  /\ \/ Commit([State EXCEPT
                  !.evaluated.st = "returned",
                  !.evaluated.list =
                     UniqueSources(@ \o ImdbVideoSources(dom))])
     \/ Commit([State EXCEPT !.evaluated.st = "caught",
                              !.evaluated.list = <<>>])

\* The catch block: the fallback callback's list is returned as it is, and
\* [] when that callback throws too.
FallbackEvaluateSettles ==
  /\ evaluated.st = "caught"
  /\ \/ Commit([State EXCEPT !.evaluated.st = "returnedFallback",
                              !.evaluated.list = FallbackSources(dom)])
     \/ Commit([State EXCEPT !.evaluated.st = "returnedEmpty"])

InitVideo ==
  /\ NoRequests
  /\ dom \in VideoDocs
  /\ evaluated = NotEvaluated

NextVideo ==
  \/ WaitForVideoSettles
  \/ VideoEvaluateSettles
  \/ ImdbEvaluateSettles
  \/ FallbackEvaluateSettles

SpecVideo == InitVideo /\ [][NextVideo]_vars

\* ----------------------------------------------------------------- claims
\* The calls a request has in flight: the one its handler awaits, and
\* those of its extractor tasks.
CallsOf(r) ==
  {target[r]} \cup {ext[r][x].call : x \in SectionSet}

\* C1: every call a request has in flight (a navigation, a selector wait,
\* an evaluation, browser.close()) is on a browser, or on a page of a
\* browser, that was launched for that same request.
C1_ExclusiveOwnership ==
  \A r \in Requests : \A c \in CallsOf(r) : c.on # Null => c.on.req = r

\* scrapeCompleteMovieData was called for request r and has exited.
MovieExited(r) == kind[r] = "movie" /\ pc[r] = "done" /\ attempt[r] > 0

\* C2: when requests do not overlap, at every exit of
\* scrapeCompleteMovieData (return or throw) close() has been invoked since
\* the last successful launch, and both handles are null unless
\* browser.close() threw.
C2_ClosedOnEveryExit ==
  \A r \in Requests :
    MovieExited(r) =>
      /\ lastClose[r] # "none"
      /\ lastClose[r] # "threw" => browser = Null /\ page = Null

\* A scrape that needed a second attempt, returned normally and closed.
C2_Witness ==
  \E r \in Requests :
    /\ MovieExited(r) /\ status[r] = 200 /\ attempt[r] = 2
    /\ lastClose[r] = "ok" /\ browser = Null /\ page = Null

\* The calls a request has in flight on a page.
PageCallsOf(r) ==
  (IF pc[r] \in {"setUserAgent", "setViewport", "gotoDirect", "gotoGateway",
                 "listWait", "listEval"}
   THEN {target[r]} ELSE {})
    \cup {ext[r][x].call : x \in {y \in SectionSet : ext[r][y].st \in {"call", "fallback"}}}

\* C3: no navigation, selector wait or evaluation is issued on a page whose
\* browser close() has already been called on.
C3_ClosedNeverReused ==
  \A r \in Requests : \A c \in PageCallsOf(r) : ~c.stale

\* C4: a movie request whose body has no imdbid (absent or empty) is
\* answered 400 "imdbid is required" at once, and startWithRetry is never
\* entered for it: no launch is attempted and no browser of it exists.
C4_MissingIdRejected ==
  \A r \in Requests :
    kind[r] = "movie" /\ Falsy(body[r]) =>
      /\ pc[r] = "done" /\ status[r] = 400 /\ message[r] = E_imdbidRequired
      /\ attempt[r] = 0 /\ startResult[r] = "none"
      /\ \A b \in live \cup {browser, page} : b.req # r

\* A request with an empty imdbid has been answered 400.
C4_Witness ==
  \E r \in Requests :
    /\ kind[r] = "movie" /\ body[r].present /\ body[r].imdbid = <<>>
    /\ status[r] = 400 /\ attempt[r] = 0

\* C5: a movie request is answered 400 only for a missing imdbid and 500
\* only when startWithRetry failed; once startWithRetry has succeeded the
\* answer is 200.
C5_Non200OnlyForValidationOrStart ==
  \A r \in Requests :
    kind[r] = "movie" /\ pc[r] = "done" =>
      /\ \/ status[r] = 200
         \/ status[r] = 400 /\ Falsy(body[r])
         \/ status[r] = 500 /\ startResult[r] = "failed"
      /\ startResult[r] = "ok" => status[r] = 200

\* The seven sections that are stored under their own key.
NamedSections == SectionSet \ {"basicInfo"}

\* Promise.all resolves for request r in this step.
Aggregates(r) ==
  /\ pc[r] = "extract" /\ pc'[r] # "extract"
  /\ \A x \in SectionSet : Settled(ext[r][x])

\* Section x holds a null placeholder in record rec.
HoldsNull(rec, x) ==
  IF x = "basicInfo"
  THEN \/ "basicInfo" \in DOMAIN rec /\ rec["basicInfo"] = "null"
       \/ /\ {"imdbId", "title"} \subseteq DOMAIN rec
          /\ rec["imdbId"] = "null" /\ rec["title"] = "null"
  ELSE x \in DOMAIN rec /\ rec[x] = "null"

\* Record rec holds what the extractor of section x resolved with.
HoldsValue(rec, x, task) ==
  IF x = "basicInfo"
  THEN /\ {"imdbId", "title"} \subseteq DOMAIN rec
       /\ rec["imdbId"] = rec["title"]
       /\ rec["title"] = (IF task.val = "emptyInfo" THEN "emptyString"
                          ELSE task.val)
  ELSE x \in DOMAIN rec /\ rec[x] = task.val

TrendingExited(r) == kind[r] = "trending" /\ pc[r] = "done"

\* C7 as stated: when scrapeTrending returns no item, the answer is 500
\* with "No valid trending movies data found".
C7_EmptyIsNoValidTrending ==
  \A r \in Requests :
    TrendingExited(r) /\ returned[r] = <<>> =>
      status[r] = 500 /\ message[r] = E_noValidTrending

\* C7: when scrapeTrending returns no item (it returns, it does not
\* throw), the answer is 500 with "No trending movies found on IMDb".
C7_EmptyIsNoTrending ==
  \A r \in Requests :
    TrendingExited(r) /\ returned[r] = <<>> =>
      status[r] = 500 /\ message[r] = E_noTrending

\* The page listed items and the validity filter kept none of them.
C7_Witness ==
  \E r \in Requests :
    /\ TrendingExited(r) /\ Len(movieList[r]) = MaxItems
    /\ returned[r] = <<>> /\ status[r] = 500

\* scrapeTrending met a failure: it went through its catch, or the page
\* listed nothing.
TrendingFailed(r) ==
  TrendingExited(r) /\ (ctx[r] = "trendErr" \/ movieList[r] = <<>>)

\* The controller got a list from scrapeTrending, not an exception.
TrendingReturned(r) ==
  \/ status[r] = 200 /\ message[r] = <<>>
  \/ status[r] = 500 /\ message[r] \in {E_noTrending, E_noValidTrending}

Retained(movie) ==
  Trim(movie.title) # <<>> /\ StartsWith(movie.imdbId, S_tt)

\* C9: the sequence scrapeTrending returns is the extracted list restricted
\* to the items whose trimmed title is non-empty and whose identifier
\* starts with "tt", in the same order.
C9_RetainedIffValid ==
  \A r \in Requests :
    TrendingExited(r) => returned[r] = SelectSeq(movieList[r], Retained)

\* Of the items extracted, the first was dropped and the second kept.
C9_Witness ==
  \E r \in Requests :
    /\ TrendingExited(r) /\ Len(movieList[r]) = 2
    /\ ~Retained(movieList[r][1])
    /\ returned[r] = <<movieList[r][2]>>

\* C10: close() on a null browser handle finds the page handle null too,
\* changes neither handle, calls no teardown and returns; and a close()
\* that follows a close() whose teardown resolved changes nothing.
C10_CloseIdempotent ==
  \A r \in Requests :
    /\ browser = Null =>
         /\ page = Null
         /\ LET s1 == CloseCall(State, r)
            IN  /\ s1.browser = Null /\ s1.page = Null /\ s1.live = live
                /\ s1.pc = pc /\ s1.target = target
                /\ s1.lastClose[r] = "noop"
    /\ pc[r] = "closing" =>
         LET s1 == CloseReturn(State, r, "ok")
             s2 == CloseCall(s1, r)
         IN  /\ s2.browser = s1.browser /\ s2.page = s1.page
             /\ s2.live = s1.live /\ s2.pc = s1.pc /\ s2.target = s1.target

\* startWithRetry closed the session of its last attempt, and the close()
\* in scrapeTrending's catch then found nothing to close.
C10_Witness ==
  \E r \in Requests :
    /\ TrendingExited(r) /\ startResult[r] = "failed"
    /\ lastError[r].message = E_newPage /\ lastClose[r] = "noop"
    /\ browser = Null /\ page = Null

\* C11: within an attempt the strategies are invoked in array order; the
\* first launch that succeeds gives the session its browser and no later
\* strategy is invoked; the attempt fails for want of a browser only after
\* the last strategy failed; none of this advances the attempt counter;
\* and in the first attempt of a run the number of launch failures is the
\* number of strategies before the one in use.
C11_StrategiesInOrder ==
  [][\A r \in Requests :
       (pc[r] = "launch" /\ pc'[r] # "launch") \/ strat'[r] # strat[r] =>
         \/ /\ pc[r] # "launch" /\ pc'[r] = "launch" /\ strat'[r] = 1
         \/ /\ pc[r] = "launch" /\ pc'[r] = "launch"
            /\ strat'[r] = strat[r] + 1 /\ strat'[r] <= Len(strategies)
            /\ attempt'[r] = attempt[r]
            /\ browser' = browser /\ live' = live
         \/ /\ pc[r] = "launch" /\ pc'[r] = "newPage"
            /\ strat'[r] = strat[r] /\ attempt'[r] = attempt[r]
            /\ browser' = BrowserOf(r, attempt[r])
            /\ target'[r].on = browser' /\ browser' \in live' \ live
            /\ (r = 1 /\ attempt[r] = 1 => MaxFaults - faults' = strat[r] - 1)
         \/ /\ pc[r] = "launch" /\ pc'[r] \notin {"launch", "newPage"}
            /\ strat[r] = Len(strategies)
            /\ live' \subseteq live
         \/ pc[r] # "launch" /\ pc'[r] = "done" /\ strat'[r] = 0
         \/ pc[r] = "done" /\ pc'[r] = "idle"]_vars

\* Strategies 1 and 2 threw, strategy 3 launched the browser in use, in
\* the first attempt.
C11_Witness ==
  /\ pc[1] = "newPage" /\ strat[1] = 3 /\ attempt[1] = 1
  /\ browser = BrowserOf(1, 1) /\ faults = MaxFaults - 2

\* The awaits inside one attempt of startWithRetry, and the edges between
\* them that an attempt takes while nothing fails for good.
AttemptPcs ==
  {"launch", "newPage", "setUserAgent", "setViewport", "gotoDirect",
   "gotoGateway", "settle"}

AttemptEdges ==
  {<<"launch", "launch">>, <<"launch", "newPage">>,
   <<"newPage", "setUserAgent">>, <<"setUserAgent", "setViewport">>,
   <<"setViewport", "gotoDirect">>, <<"gotoDirect", "gotoGateway">>,
   <<"gotoDirect", "settle">>, <<"gotoGateway", "settle">>}

\* Request r's attempt fails in this step.
AttemptFails(r) ==
  /\ pc[r] \in AttemptPcs \ {"settle"}
  /\ pc'[r] # pc[r]
  /\ <<pc[r], pc'[r]>> \notin AttemptEdges

\* C12: startWithRetry makes at most maxRetries attempts, numbered from 1
\* upwards; a failed attempt calls close() first; when close() has
\* returned it waits 2000 * attempt ms if the attempt was not the last and
\* gives up with no wait if it was; the next attempt starts only from
\* that wait; a successful attempt returns with no further attempt or wait.
C12_RetryWithLinearBackoff ==
  /\ [](\A r \in Requests :
          /\ attempt[r] <= maxRetries
          /\ pc[r] = "backoff" =>
               /\ attempt[r] < maxRetries
               /\ timer[r] = retryDelayMs * attempt[r]
               /\ lastClose[r] # "none"
          /\ startResult[r] = "failed" =>
               attempt[r] = maxRetries /\ pc[r] \notin AttemptPcs \cup {"backoff"}
          /\ startResult[r] = "ok" => pc[r] \notin AttemptPcs \cup {"backoff"})
  /\ [][\A r \in Requests :
          /\ attempt'[r] # attempt[r] =>
               \/ pc[r] = "idle" /\ attempt'[r] = 1
               \/ pc[r] = "backoff" /\ attempt'[r] = attempt[r] + 1
                                    /\ pc'[r] = "launch"
               \/ pc[r] = "done" /\ attempt'[r] = 0
          /\ AttemptFails(r) =>
               \/ pc'[r] = "closing" /\ ctx'[r] = "retry"
               \/ /\ browser = Null /\ lastClose'[r] = "noop"
                  /\ IF attempt[r] = maxRetries
                     THEN startResult'[r] = "failed"
                     ELSE pc'[r] = "backoff"
          /\ pc[r] = "closing" /\ ctx[r] = "retry" /\ pc'[r] # "closing" =>
               IF attempt[r] = maxRetries
               THEN startResult'[r] = "failed"
               ELSE pc'[r] = "backoff"
          /\ pc[r] = "settle" /\ pc'[r] # "settle" =>
               /\ startResult'[r] = "ok" /\ attempt'[r] = attempt[r]
               /\ pc'[r] \notin AttemptPcs \cup {"backoff"}]_vars

\* The second attempt failed, close() has returned, and 4000 ms are being
\* waited before the third.
C12_Witness ==
  \E r \in Requests :
    /\ pc[r] = "backoff" /\ attempt[r] = 2 /\ timer[r] = 4000
    /\ lastClose[r] = "ok" /\ browser = Null

\* C13: when startWithRetry gives up, the error it remembers was raised in
\* attempt maxRetries, and the composed message, which the movie endpoint
\* passes on, is "Failed to start browser after 3 attempts. Last error: "
\* followed by that error's message.
C13_LastErrorSurfaced ==
  \A r \in Requests :
    startResult[r] = "failed" =>
      /\ lastError[r].attempt = maxRetries
      /\ lastError[r].message # <<>>
      /\ kind[r] = "movie" /\ pc[r] = "done" =>
           /\ status[r] = 500
           /\ message[r] =
                <<"Failed to start browser after ", "3",
                  " attempts. Last error: ">> \o lastError[r].message

\* Three attempts failed, the third on a page call, and the movie
\* endpoint answered with the composed message ending in that error's.
C13_Witness ==
  \E r \in Requests :
    /\ kind[r] = "movie" /\ pc[r] = "done" /\ startResult[r] = "failed"
    /\ lastError[r] = [message |-> E_pageCall, attempt |-> maxRetries]
    /\ message[r][Len(message[r])] = E_pageCall[1]

\* scrapeWithRetry(url, N) with N >= 1: at most N calls of scrapeUrl; the
\* body returned is that of the first call that succeeded; one wait after
\* each failed call but the last; on exhaustion the error thrown is that of
\* call N.
FetchRetries ==
  /\ fetch.calls <= fetch.maxRetries
  /\ Len(fetch.waits) <= fetch.calls
  /\ fetch.pc = "scrapeUrl" =>
       fetch.calls = fetch.attempt /\ Len(fetch.waits) = fetch.calls - 1
  /\ fetch.pc = "wait" =>
       /\ fetch.calls = fetch.attempt /\ Len(fetch.waits) = fetch.calls
       /\ fetch.calls < fetch.maxRetries
  /\ fetch.pc = "returned" =>
       /\ fetch.html.body \in FetchBodies
       /\ fetch.html.attempt = fetch.calls
       /\ Len(fetch.waits) = fetch.calls - 1
  /\ fetch.pc = "threw" /\ fetch.maxRetries >= 1 =>
       /\ fetch.calls = fetch.maxRetries
       /\ Len(fetch.waits) = fetch.maxRetries - 1
       /\ fetch.thrown.attempt = fetch.maxRetries
       /\ fetch.thrown.message \in FetchErrors

\* C14 as stated: the retries, and the wait after the k-th failed call is
\* 2^(k-1) seconds: 1 s before the 2nd call, 2 s before the 3rd.
C14_DelaysFromOneSecond ==
  /\ FetchRetries
  /\ \A k \in 1..Len(fetch.waits) : fetch.waits[k] = 2 ^ (k - 1) * 1000

\* C14: the retries, and the wait after the k-th failed call is 2^k
\* seconds: 2 s before the 2nd call, 4 s before the 3rd; called with N < 1
\* it calls nothing and throws its unassigned lastError.
C14_DelaysFromTwoSeconds ==
  /\ FetchRetries
  /\ \A k \in 1..Len(fetch.waits) : fetch.waits[k] = 2 ^ k * 1000
  /\ fetch.pc # "idle" /\ fetch.maxRetries < 1 =>
       fetch.pc = "threw" /\ fetch.calls = 0 /\ fetch.thrown = NoFetchError

\* scrapeWithRetry(url, 3) failed three times: it waited 2 s and 4 s and
\* threw the third error.
C14_Witness ==
  /\ fetch.pc = "threw" /\ fetch.maxRetries = 3 /\ fetch.calls = 3
  /\ fetch.waits = <<2000, 4000>> /\ fetch.thrown.attempt = 3

\* The first of the given entries of dom that has the largest of their
\* widths under the measure W.
FirstWidest(among, W(_)) ==
  CHOOSE i \in among :
    /\ \A j \in among : W(dom[j]) <= W(dom[i])
    /\ \A j \in among : W(dom[j]) = W(dom[i]) => i <= j

\* An entry's width descriptor ("10w" is 10), 0 when it has none.
DescribedWidth(e) ==
  IF e.descriptor # <<>> /\ e.descriptor[Len(e.descriptor)] = "w"
  THEN ParseInt(SubSeq(e.descriptor, 1, Len(e.descriptor) - 1))
  ELSE 0

\* The number an entry's descriptor starts with, whatever follows it
\* ("10w" is 10, "2x" is 2), 0 when it has no descriptor.
LeadingNumber(e) ==
  IF e.descriptor = <<>> THEN 0 ELSE ParseInt(e.descriptor)

\* C15 as stated: when some entry has an absolute URL and a positive width
\* descriptor, the URL returned is that of the first entry of maximum
\* width.
C15_MaxWidthReturned ==
  evaluated.st # "pending" =>
    ((\E i \in DOMAIN dom :
        StartsWith(dom[i].url, S_http) /\ DescribedWidth(dom[i]) > 0)
     => /\ evaluated.st = "url"
        /\ evaluated.url = dom[FirstWidest(DOMAIN dom, DescribedWidth)].url)

\* What the srcset branch does: the entry looked at is the first one, in
\* srcset order, with the largest leading number in its descriptor among
\* all entries; its URL is returned when that number is positive and the
\* URL starts with "http", and otherwise the srcset yields nothing.
SrcsetFirstWidestIfAbsolute ==
  evaluated.st # "pending" =>
    LET e == dom[FirstWidest(DOMAIN dom, LeadingNumber)]
    IN  IF LeadingNumber(e) > 0 /\ StartsWith(e.url, S_http)
        THEN evaluated.st = "url" /\ evaluated.url = e.url
        ELSE evaluated.st = "none"

\* Two absolute entries tie at the largest width, 10 (above a "2w"); the
\* URL of the earlier one was returned.
C15_TieToFirst ==
  /\ evaluated.st = "url" /\ Len(dom) = 3
  /\ dom[1].descriptor = <<"2", "w">>
  /\ dom[2].descriptor = <<"1", "0", "w">>
  /\ dom[3].descriptor = <<"1", "0", "w">>
  /\ dom[2].url # dom[3].url
  /\ evaluated.url = dom[2].url

\* The combined list the deduplication step was given.
AllSources == VideoSources(dom) \o ImdbVideoSources(dom)

\* No two entries of the list have the same src.
DistinctSrc(list) ==
  \A i, j \in DOMAIN list : list[i].src = list[j].src => i = j

\* C16: the deduplicated list has no two entries with the same src, holds
\* for every src of the combined list the first entry that has it, and
\* keeps those entries in the order of their first occurrence.
C16_DedupKeepsFirst ==
  evaluated.st = "returned" =>
    /\ DistinctSrc(evaluated.list)
    /\ \A i \in DOMAIN AllSources :
         \E k \in DOMAIN evaluated.list :
           /\ evaluated.list[k].src = AllSources[i].src
           /\ \A j \in 1..(i - 1) :
                AllSources[j].src = AllSources[i].src
                => evaluated.list[k] # AllSources[i]
    /\ \A k \in DOMAIN evaluated.list :
         \E i \in DOMAIN AllSources :
           /\ evaluated.list[k] = AllSources[i]
           /\ \A j \in 1..(i - 1) : AllSources[j].src # AllSources[i].src
    /\ \A k, l \in DOMAIN evaluated.list :
         k < l =>
           \E i, j \in DOMAIN AllSources :
             /\ i < j
             /\ AllSources[i] = evaluated.list[k]
             /\ AllSources[j] = evaluated.list[l]

\* A combined list of four entries with two srcs, each occurring as a
\* native and as a player-library entry, was reduced to two entries.
C16_Witness ==
  /\ evaluated.st = "returned"
  /\ Len(AllSources) = 4
  /\ Len(evaluated.list) = 2
  /\ evaluated.list[1].via = "video"
  /\ evaluated.list[2].via = "video-source"
  /\ \E i \in DOMAIN AllSources : AllSources[i].via = "imdb-video"

\* scrapeVideoSources has returned, by either path.
VideoSourcesReturned ==
  evaluated.st \in {"returned", "returnedFallback", "returnedEmpty"}

NormalPathDistinct ==
  evaluated.st = "returned" => DistinctSrc(evaluated.list)

NavigationPcs == {"gotoDirect", "gotoGateway"}

\* C17: within an attempt the direct navigation comes first, after
\* setViewport; the gateway navigation is issued exactly when the direct
\* one failed; when the gateway navigation fails too the attempt fails with
\* the navigation error and close() is called on the attempt's browser,
\* from where the retry path goes on; when the last launch strategy fails
\* the attempt fails with no browser of its own, and a navigation is only
\* ever awaited on the browser its own attempt launched.
C17_DirectThenGateway ==
  /\ [](\A r \in Requests :
          pc[r] \in NavigationPcs =>
            /\ BrowserOf(r, attempt[r]) \in live
            /\ target[r].on = BrowserOf(r, attempt[r]))
  /\ [][\A r \in Requests :
          /\ (pc'[r] = "gotoDirect" /\ pc[r] # "gotoDirect") =>
               (pc[r] = "setViewport" /\ faults' = faults)
          /\ (pc'[r] = "gotoGateway" /\ pc[r] # "gotoGateway") =>
               (pc[r] = "gotoDirect" /\ faults' = faults - 1)
          /\ (pc[r] = "gotoDirect" /\ pc'[r] # "gotoDirect") =>
               /\ pc'[r] = (IF faults' = faults THEN "settle"
                            ELSE "gotoGateway")
               /\ attempt'[r] = attempt[r]
               /\ lastError'[r] = lastError[r]
          /\ (pc[r] = "gotoGateway" /\ pc'[r] # "gotoGateway") =>
               IF faults' = faults
               THEN pc'[r] = "settle" /\ lastError'[r] = lastError[r]
               ELSE /\ pc'[r] = "closing" /\ ctx'[r] = "retry"
                    /\ target'[r].on = BrowserOf(r, attempt[r])
                    /\ lastError'[r] = [message |-> E_navigation,
                                        attempt |-> attempt[r]]
          /\ (/\ pc[r] = "launch" /\ strat[r] = Len(strategies)
              /\ faults' = faults - 1) =>
               /\ pc'[r] \notin AttemptPcs \/ attempt'[r] = attempt[r] + 1
               /\ BrowserOf(r, attempt[r]) \notin live'
               /\ lastError'[r].message = E_allStrategies
         ]_vars

\* In its first attempt a request failed both navigations and is closing
\* that attempt's browser.
C17_Witness ==
  \E r \in Requests :
    /\ pc[r] = "closing" /\ ctx[r] = "retry" /\ attempt[r] = 1
    /\ lastError[r] = [message |-> E_navigation, attempt |-> 1]
    /\ target[r].on = BrowserOf(r, 1)

\* Request r's browser.close() settles in this step by throwing.
TeardownThrows(r) ==
  /\ pc[r] = "closing"
  /\ pc'[r] # "closing" \/ ctx'[r] # ctx[r]
  /\ lastClose'[r] = "threw"

\* C18: what browser.close() throws is never the error a request ends
\* with, and when it throws, close() returns and its caller goes on as it
\* does after a clean teardown: startWithRetry keeps the attempt's error
\* and goes to the backoff or to its own final error, the movie scrape
\* delivers its record, and scrapeTrending returns its list.
C18_TeardownErrorsSwallowed ==
  /\ [](\A r \in Requests :
          message[r] # E_teardown /\ lastError[r].message # E_teardown)
  /\ [][\A r \in Requests :
          TeardownThrows(r) =>
            /\ lastError'[r] = lastError[r]
            /\ ctx[r] = "retry" =>
                 IF attempt[r] < maxRetries
                 THEN pc'[r] = "backoff" /\ status'[r] = 0
                 ELSE /\ startResult'[r] = "failed"
                      /\ kind[r] = "movie" =>
                           /\ pc'[r] = "done" /\ status'[r] = 500
                           /\ message'[r] =
                                <<"Failed to start browser after ",
                                  NumStr(maxRetries),
                                  " attempts. Last error: ">>
                                \o lastError[r].message
                      /\ kind[r] = "trending" =>
                           pc'[r] = "closing" /\ ctx'[r] = "trendErr"
            /\ ctx[r] = "movieOk" =>
                 /\ pc'[r] = "done" /\ status'[r] = 200
                 /\ movieData'[r] = movieData[r]
            /\ ctx[r] = "trendOk" =>
                 /\ pc'[r] = "done"
                 /\ returned'[r] = SelectSeq(movieList[r], ValidMovie)
            /\ ctx[r] = "trendErr" =>
                 pc'[r] = "done" /\ returned'[r] = <<>>
         ]_vars

\* browser.close() threw after a successful movie scrape and the record
\* was delivered all the same.
C18_Witness ==
  \E r \in Requests :
    /\ MovieExited(r) /\ status[r] = 200 /\ startResult[r] = "ok"
    /\ lastClose[r] = "threw" /\ browser # Null

\* The place of an await in one attempt of startWithRetry.
AttemptRank(p) ==
  CASE p = "launch" -> 1
    [] p = "newPage" -> 2
    [] p = "setUserAgent" -> 3
    [] p = "setViewport" -> 4
    [] p = "gotoDirect" -> 5
    [] p = "gotoGateway" -> 6
    [] p = "settle" -> 7

\* C20: when every awaited step and delay settles, a request that has been
\* taken up is answered in the end; it makes at most maxRetries attempts,
\* and within one attempt control only moves forward through launch,
\* newPage, setUserAgent, setViewport, direct goto, gateway goto, so that
\* there are at most three launch calls (one per strategy) and at most two
\* navigations.
C20_RunsToCompletion ==
  /\ \A r \in Requests : (pc[r] \notin {"idle", "done"}) ~> (pc[r] = "done")
  /\ [](\A r \in Requests :
          attempt[r] <= maxRetries /\ strat[r] <= Len(strategies))
  /\ [][\A r \in Requests :
          /\ attempt'[r] # attempt[r] =>
               \/ attempt'[r] = attempt[r] + 1 /\ pc'[r] = "launch"
               \/ attempt'[r] = 0
          /\ (/\ attempt'[r] = attempt[r]
              /\ pc[r] \in AttemptPcs /\ pc'[r] \in AttemptPcs
              /\ <<pc[r], strat[r]>> # <<pc'[r], strat'[r]>>) =>
               \/ AttemptRank(pc'[r]) > AttemptRank(pc[r])
               \/ /\ pc[r] = "launch" /\ pc'[r] = "launch"
                  /\ strat'[r] = strat[r] + 1
          /\ (pc[r] \notin AttemptPcs /\ pc'[r] \in AttemptPcs) =>
               /\ pc'[r] = "launch" /\ strat'[r] = 1
               /\ attempt'[r] = attempt[r] + 1
         ]_vars

\* A trending scrape that started in its last attempt has been answered.
C20_Witness ==
  \E r \in Requests :
    /\ kind[r] = "trending" /\ pc[r] = "done"
    /\ attempt[r] = maxRetries /\ startResult[r] = "ok"

\* C21: during one scrape every browser process that was launched and is
\* still running is the one the browser handle refers to, so that at most
\* one is running at any time.
C21_NoOrphanedBrowser ==
  /\ \A b \in live : b = browser
  /\ Cardinality(live) <= 1

\* The same while no attempt of the request has failed and no
\* browser.close() has thrown.
NoOrphanBeforeFirstFailure ==
  (\A r \in Requests : lastClose[r] # "threw" /\ lastError[r] = NoError)
    => \A b \in live : b = browser

\* C22: a trending request is answered 200 exactly when scrapeTrending
\* returned a non-empty list; the response's data is then that list, item
\* for item, and count is its length, at least 1; every other answer is a
\* 500 that carries a message.
C22_TrendingResponseShape ==
  \A r \in Requests :
    TrendingExited(r) =>
      /\ status[r] \in {200, 500}
      /\ status[r] = 200 <=> returned[r] # <<>>
      /\ status[r] = 200 =>
           /\ data[r] = returned[r]
           /\ count[r] = Len(data[r])
           /\ count[r] >= 1
      /\ status[r] = 500 =>
           /\ message[r] # <<>>
           /\ data[r] = <<>> /\ count[r] = 0

\* Both items of the page were valid and form the data of a 200 response
\* with count 2.
C22_Witness ==
  \E r \in Requests :
    /\ TrendingExited(r) /\ status[r] = 200
    /\ Len(movieList[r]) = 2 /\ data[r] = movieList[r] /\ count[r] = 2
====
